---- MODULE Spec2Model ----
(***************************************************************************)
(* Model of bot.py (Media to Telegraph bot): the startup in main, the      *)
(* media pipeline handle_media with download_file and upload_to_telegraph, *)
(* the staged temp files on disk and the replies sent to the user.         *)
(*                                                                         *)
(* Python strings that the code inspects (file names, extensions, the      *)
(* upload response) are sequences of one-character strings, so that        *)
(* os.path.splitext, str.lower and str.startswith are computed.            *)
(***************************************************************************)
EXTENDS Integers, Sequences, FiniteSets, TLC

\* ------------------------------------------------------------------ bounds
\* messages handled by one process in a behaviour
MaxRuns == 2
\* payload sizes enumerated above the size limit
MaxOver == 1

\* ------------------------------------------------------- python strings
UpperChars == <<"A","B","C","D","E","F","G","H","I","J","K","L","M",
                "N","O","P","Q","R","S","T","U","V","W","X","Y","Z">>
LowerChars == <<"a","b","c","d","e","f","g","h","i","j","k","l","m",
                "n","o","p","q","r","s","t","u","v","w","x","y","z">>

\* str.lower on one character
LowerChar(c) ==
    IF \E i \in 1..Len(UpperChars) : UpperChars[i] = c
    THEN LowerChars[CHOOSE i \in 1..Len(UpperChars) : UpperChars[i] = c]
    ELSE c

\* str.lower
Lower(s) == [i \in 1..Len(s) |-> LowerChar(s[i])]

\* str.rfind(c), 1-based, 0 when c does not occur
RFind(s, c) ==
    IF \E i \in 1..Len(s) : s[i] = c
    THEN CHOOSE i \in 1..Len(s) : s[i] = c /\ \A j \in (i+1)..Len(s) : s[j] # c
    ELSE 0

\* str.startswith
StartsWith(s, p) == Len(s) >= Len(p) /\ SubSeq(s, 1, Len(p)) = p

\* os.path.splitext(p)[1]: the text from the last dot on, provided the dot
\* comes after the last separator and some character between the separator
\* and the dot is not a dot (leading dots do not start an extension)
SplitExt(p) ==
    LET sepIndex == RFind(p, "/")
        dotIndex == RFind(p, ".")
    IN  IF dotIndex > sepIndex
           /\ \E i \in (sepIndex+1)..(dotIndex-1) : p[i] # "."
        THEN SubSeq(p, dotIndex, Len(p))
        ELSE <<>>

\* Optional values (None / a value)
None == [some |-> FALSE, val |-> <<>>]
Some(v) == [some |-> TRUE, val |-> v]
\* python truthiness of an optional string
Truthy(o) == o.some /\ o.val # <<>>

\* ------------------------------------------------------- program constants
EXT_JPG == <<".","j","p","g">>
EXT_JPEG == <<".","j","p","e","g">>
EXT_PNG == <<".","p","n","g">>
EXT_GIF == <<".","g","i","f">>
EXT_MP4 == <<".","m","p","4">>

SUPPORTED_EXTENSIONS == {EXT_JPG, EXT_JPEG, EXT_PNG, EXT_GIF, EXT_MP4}
SUPPORTED_MIME_TYPES == {"image/jpeg", "image/png", "image/gif", "video/mp4"}

\* 5MB limit
SIZE_LIMIT == 5 * 1024 * 1024

\* '/file/'
FILE_PREFIX == <<"/","f","i","l","e","/">>

\* ------------------------------------------------------- environment inputs
\* os.getenv('TELEGRAPH_ACCESS_TOKEN'): unset, empty, or a token
ENV_UNSET == "<unset>"
EnvTokens == {ENV_UNSET, "", "envtoken"}
\* `not token`
NoToken(t) == t = ENV_UNSET \/ t = ""
\* the token returned by telegraph.create_account
NEW_TOKEN == "newtoken"

ContentTypes == {"photo", "video", "document"}

\* declared file names a sender may attach (None when absent)
FileNames == {
    None,
    Some(<<"a",".","j","p","g">>),
    Some(<<"a",".","J","P","G">>),
    Some(<<"d",".","t","x","t">>),
    Some(<<".","g","i","f">>),
    Some(<<"f",".","g","i","f","/","g">>),
    Some(<<"h",".","t","x","t",".","j","p","e","g">>) }

Sizes == {SIZE_LIMIT - 1, SIZE_LIMIT} \cup ((SIZE_LIMIT + 1)..(SIZE_LIMIT + MaxOver))
Mimes == SUPPORTED_MIME_TYPES \cup {"text/plain"}
Payloads == [size : Sizes, mime : Mimes]

Messages ==
    { m \in [content_type : ContentTypes, file_name : FileNames] :
        m.content_type = "photo" => m.file_name = None }

\* upload responses: kind "str" (val), "list" (items), "dict", "none"
PATH_ABC == FILE_PREFIX \o <<"a",".","p","n","g">>
PATH_XYZ == FILE_PREFIX \o <<"x">>
ItemDict(src) == [kind |-> "dict", src |-> src]
ItemStr == [kind |-> "str", src |-> None]
RespStr(s) == [kind |-> "str", val |-> s, items |-> <<>>]
RespList(l) == [kind |-> "list", val |-> <<>>, items |-> l]
RespDict == [kind |-> "dict", val |-> <<>>, items |-> <<>>]
RespNone == [kind |-> "none", val |-> <<>>, items |-> <<>>]

Responses == {
    RespList(<<ItemDict(Some(PATH_ABC))>>),
    RespList(<<ItemDict(Some(PATH_ABC)), ItemDict(Some(PATH_XYZ))>>),
    RespList(<<ItemDict(Some(PATH_XYZ)), ItemDict(None)>>),
    RespList(<<ItemDict(Some(<<>>))>>),
    RespList(<<ItemDict(None)>>),
    RespList(<<ItemDict(None), ItemDict(Some(PATH_ABC))>>),
    RespList(<<ItemStr>>),
    RespList(<<>>),
    RespStr(PATH_ABC),
    RespStr(FILE_PREFIX),
    RespStr(<<"f","i","l","e","/","a">>),
    RespStr(<<"/","f","i","l","e">>),
    RespStr(<<"x","/","f","i","l","e","/","a">>),
    RespStr(<<>>),
    RespDict,
    RespNone }

\* the exception an external call raises instead of answering
RespRaise == [kind |-> "raise", val |-> <<>>, items |-> <<>>]

\* the answers of the endpoint tried inside the pipeline
PipelineResponses == {
    RespList(<<ItemDict(Some(PATH_ABC))>>),
    RespList(<<ItemDict(Some(<<>>))>>),
    RespStr(PATH_ABC),
    RespDict,
    RespRaise }
SNIFF_RAISE == "<raise>"

\* what can happen inside download_file: the call that raises ("none" when
\* no call raises) and the status the remote answers with
DownloadOutcomes ==
    [raises : {"none", "get_file_url", "requests.get", "open", "write"},
     status : {200, 404}]

\* ------------------------------------------------------------ pure helpers
\* download_file(file_info, file_name): the returned flag and the files on
\* disk afterwards.  open(file_name, 'wb') creates the file, so a failure in
\* f.write leaves it behind.
download_file(o, name, files) ==
    IF o.raises \in {"get_file_url", "requests.get"}
    THEN [ret |-> FALSE, files |-> files]
    ELSE IF o.status = 200
         THEN IF o.raises = "open"
              THEN [ret |-> FALSE, files |-> files]
              ELSE IF o.raises = "write"
                   THEN [ret |-> FALSE, files |-> files \cup {name}]
                   ELSE [ret |-> TRUE, files |-> files \cup {name}]
         ELSE [ret |-> FALSE, files |-> files]

\* variant of TooLarge: the limit itself is refused (>= for >)
TooLarge_AtLimit(file_size) == file_size >= SIZE_LIMIT

\* `file_size > 5 * 1024 * 1024`
TooLarge(file_size) == file_size > SIZE_LIMIT

\* variant of UnsupportedMime: text/plain slipped into the allow-list
UnsupportedMime_TextAllowed(mime) == mime \notin SUPPORTED_MIME_TYPES \cup {"text/plain"}

\* `mime not in SUPPORTED_MIME_TYPES`
UnsupportedMime(mime) == mime \notin SUPPORTED_MIME_TYPES

\* variant of UnsupportedExt: only a missing extension is refused
UnsupportedExt_OnlyEmpty(ext) == ext = <<>>

\* `file_ext.lower() not in SUPPORTED_EXTENSIONS`
UnsupportedExt(ext) == Lower(ext) \notin SUPPORTED_EXTENSIONS

\* variant of DecodeResponse: a string answer is returned without the
\* startswith('/file/') test
DecodeResponse_AnyString(response) ==
    IF response.kind = "str"
    THEN [ret |-> Some(response.val), exit |-> "string_path"]
    ELSE IF response.kind = "list" /\ response.items # <<>>
         THEN IF response.items[1].kind = "dict"
              THEN [ret |-> response.items[1].src, exit |-> "list_src"]
              ELSE [ret |-> None, exit |-> "exception"]
         ELSE [ret |-> None, exit |-> "unexpected_format"]

\* the response handling of upload_to_telegraph; response[0].get raises
\* when the first element is not a dict, which the enclosing except turns
\* into None
DecodeResponse(response) ==
    IF response.kind = "str"
    THEN IF StartsWith(response.val, FILE_PREFIX)
         THEN [ret |-> Some(response.val), exit |-> "string_path"]
         ELSE [ret |-> None, exit |-> "unexpected_string"]
    ELSE IF response.kind = "list" /\ response.items # <<>>
         THEN IF response.items[1].kind = "dict"
              THEN [ret |-> response.items[1].src, exit |-> "list_src"]
              ELSE [ret |-> None, exit |-> "exception"]
         ELSE [ret |-> None, exit |-> "unexpected_format"]

\* variant of MissingCredential: `access_token is None` for `not access_token`
MissingCredential_IsNone(access_token) == access_token = ENV_UNSET

\* `if not access_token` in upload_to_telegraph
MissingCredential(access_token) == NoToken(access_token)

\* upload_to_telegraph(file_path) with os.getenv('TELEGRAPH_ACCESS_TOKEN') =
\* access_token, a file of file_size bytes, magic.from_file answering sniff,
\* telegraph.upload_file answering response.  net counts the calls made to
\* the upload endpoint; exit names the return statement taken.
upload_to_telegraph(access_token, file_size, sniff, response) ==
    IF MissingCredential(access_token)
    THEN [ret |-> None, exit |-> "no_token", net |-> 0]
    ELSE IF TooLarge(file_size)
    THEN [ret |-> None, exit |-> "too_large", net |-> 0]
    ELSE IF sniff = SNIFF_RAISE
    THEN [ret |-> None, exit |-> "exception", net |-> 0]
    ELSE IF UnsupportedMime(sniff)
    THEN [ret |-> None, exit |-> "unsupported_mime", net |-> 0]
    ELSE IF response = RespRaise
    THEN [ret |-> None, exit |-> "exception", net |-> 1]
    ELSE [ret |-> DecodeResponse(response).ret,
          exit |-> DecodeResponse(response).exit,
          net |-> 1]

\* the extension handle_media derives for a message (lines 127-135)
FileExtOf(m) ==
    LET declared == IF m.file_name.some THEN m.file_name.val ELSE <<>>
    IN  IF m.content_type = "photo" THEN EXT_JPG
        ELSE IF m.content_type = "video"
             THEN IF SplitExt(declared) # <<>> THEN SplitExt(declared) ELSE EXT_MP4
             ELSE SplitExt(declared)

\* ------------------------------------------------------------------ state
VARIABLES
    main_pc,        \* main: "start", "polling", "exited"
    env_token,      \* os.environ['TELEGRAPH_ACCESS_TOKEN'] (TELEGRAPH_ACCESS_TOKEN)
    telegraph,      \* access token of the module-level Telegraph client
    provisioned,    \* create_telegraph_account succeeded in main
    pc,             \* position of handle_media / of a direct upload call
    runs,           \* messages received so far (also the uuid4 source)
    message,        \* the message being handled
    payload,        \* the bytes behind the message's file reference
    file_ext,       \* local file_ext
    file_name,      \* local file_name: None while unbound
    file_size,      \* local file_size (-1 before it is read)
    file_mime,      \* local file_mime ("" before the sniff)
    telegraph_url,  \* local telegraph_url
    disk,           \* the temp files that exist on disk
    created,        \* temp files created by the current run
    verdict,        \* outcome of the size and type checks of the run
    replies,        \* replies delivered to the user in the run
    reply_calls,    \* bot.reply_to calls made in the run
    trace,          \* stages entered by the run, in order
    dl,             \* download_file calls of the run and the last result
    up              \* upload_to_telegraph calls of the run and the last call

vars == <<main_pc, env_token, telegraph, provisioned, pc, runs, message,
          payload, file_ext, file_name, file_size, file_mime, telegraph_url,
          disk, created, verdict, replies, reply_calls, trace, dl, up>>

startup == <<main_pc, env_token, telegraph, provisioned>>

NoMessage == [content_type |-> "none", file_name |-> None]
NoPayload == [size |-> 0, mime |-> ""]
NoDownload == [calls |-> 0, ret |-> FALSE]
NoUpload ==
    [calls |-> 0, net |-> 0, ret |-> None, exit |-> "none",
     token |-> ENV_UNSET, size |-> 0, sniff |-> "", response |-> RespNone]

\* the record of one upload_to_telegraph call
UploadCall(prev, access_token, size, sniff, response) ==
    LET r == upload_to_telegraph(access_token, size, sniff, response)
    IN  [calls |-> prev.calls + 1, net |-> prev.net + r.net, ret |-> r.ret,
         exit |-> r.exit, token |-> access_token, size |-> size,
         sniff |-> sniff, response |-> response]

RunLocalsReset ==
    /\ file_ext' = <<>>
    /\ file_name' = None
    /\ file_size' = -1
    /\ file_mime' = ""
    /\ telegraph_url' = None
    /\ created' = 0
    /\ verdict' = "none"
    /\ replies' = <<>>
    /\ reply_calls' = 0
    /\ trace' = <<>>
    /\ dl' = NoDownload
    /\ up' = NoUpload

Init ==
    /\ main_pc = "start"
    /\ env_token \in EnvTokens
    /\ telegraph = env_token
    /\ provisioned = FALSE
    /\ pc = "idle"
    /\ runs = 0
    /\ message = NoMessage
    /\ payload = NoPayload
    /\ file_ext = <<>>
    /\ file_name = None
    /\ file_size = -1
    /\ file_mime = ""
    /\ telegraph_url = None
    /\ disk = {}
    /\ created = 0
    /\ verdict = "none"
    /\ replies = <<>>
    /\ reply_calls = 0
    /\ trace = <<>>
    /\ dl = NoDownload
    /\ up = NoUpload

\* ---------------------------------------------------------------- main
\* main with TELEGRAPH_ACCESS_TOKEN set: go straight to polling
MainWithToken ==
    /\ main_pc = "start"
    /\ ~NoToken(env_token)
    /\ main_pc' = "polling"
    /\ UNCHANGED <<env_token, telegraph, provisioned>>
    /\ UNCHANGED <<pc, runs, message, payload, file_ext, file_name, file_size,
                   file_mime, telegraph_url, disk, created, verdict, replies,
                   reply_calls, trace, dl, up>>

\* main without a token, create_telegraph_account answers a token: only the
\* module-level client is rebound, the environment is left as it was
MainCreateAccount ==
    /\ main_pc = "start"
    /\ NoToken(env_token)
    /\ telegraph' = NEW_TOKEN
    /\ provisioned' = TRUE
    /\ main_pc' = "polling"
    /\ UNCHANGED env_token
    /\ UNCHANGED <<pc, runs, message, payload, file_ext, file_name, file_size,
                   file_mime, telegraph_url, disk, created, verdict, replies,
                   reply_calls, trace, dl, up>>

\* main without a token, create_telegraph_account returns None: main returns
MainCreateFails ==
    /\ main_pc = "start"
    /\ NoToken(env_token)
    /\ main_pc' = "exited"
    /\ UNCHANGED <<env_token, telegraph, provisioned>>
    /\ UNCHANGED <<pc, runs, message, payload, file_ext, file_name, file_size,
                   file_mime, telegraph_url, disk, created, verdict, replies,
                   reply_calls, trace, dl, up>>

\* -------------------------------------------------------- handle_media
\* bot.reply_to: the call is counted, the reply is delivered when sent
Reply(kind, sent) ==
    /\ reply_calls' = reply_calls + 1
    /\ replies' = IF sent THEN Append(replies, kind) ELSE replies

\* os.path.exists(file_name) / os.remove(file_name)
Remove(name) == disk \ {name}

\* polling hands a photo, video or document message to handle_media
Receive(m, p) ==
    /\ main_pc = "polling"
    /\ pc \in {"idle", "returned", "raised"}
    /\ runs < MaxRuns
    /\ runs' = runs + 1
    /\ message' = m
    /\ payload' = p
    /\ pc' = "resolve"
    /\ RunLocalsReset
    /\ UNCHANGED disk
    /\ UNCHANGED startup

\* lines 127-135: bot.get_file and the extension; get_file may raise
Resolve(ok) ==
    /\ pc = "resolve"
    /\ IF ok
       THEN /\ file_ext' = FileExtOf(message)
            /\ pc' = "extcheck"
       ELSE /\ pc' = "except"
            /\ UNCHANGED file_ext
    /\ UNCHANGED <<runs, message, payload, file_name, file_size, file_mime,
                   telegraph_url, disk, created, verdict, replies, reply_calls,
                   trace, dl, up>>
    /\ UNCHANGED startup

\* lines 141-149: the extension check, then the temp file name
ExtCheck(sent) ==
    /\ pc = "extcheck"
    /\ trace' = Append(trace, "ext")
    /\ IF UnsupportedExt(file_ext)
       THEN /\ Reply("unsupported_ext", sent)
            /\ pc' = IF sent THEN "returned" ELSE "except"
            /\ UNCHANGED file_name
       ELSE /\ file_name' = Some(<<runs>>)
            /\ pc' = "download"
            /\ UNCHANGED <<replies, reply_calls>>
    /\ UNCHANGED <<runs, message, payload, file_ext, file_size, file_mime,
                   telegraph_url, disk, created, verdict, dl, up>>
    /\ UNCHANGED startup

\* lines 152-154: download_file, and the reply when it reports failure
Download(o, sent) ==
    /\ pc = "download"
    /\ trace' = Append(trace, "download")
    /\ LET r == download_file(o, file_name.val, disk)
       IN  /\ disk' = r.files
           /\ created' = created + Cardinality(r.files \ disk)
           /\ dl' = [calls |-> dl.calls + 1, ret |-> r.ret]
           /\ IF r.ret
              THEN /\ pc' = "sizecheck"
                   /\ UNCHANGED <<replies, reply_calls>>
              ELSE /\ Reply("download_failed", sent)
                   /\ pc' = IF sent THEN "returned" ELSE "except"
    /\ UNCHANGED <<runs, message, payload, file_ext, file_name, file_size,
                   file_mime, telegraph_url, verdict, up>>
    /\ UNCHANGED startup

\* lines 157-163: the size check
SizeCheck(sent) ==
    /\ pc = "sizecheck"
    /\ trace' = Append(trace, "size")
    /\ file_size' = payload.size
    /\ IF TooLarge(payload.size)
       THEN /\ verdict' = "TooLarge"
            /\ Reply("too_large", sent)
            /\ IF sent
               THEN /\ disk' = Remove(file_name.val)
                    /\ pc' = "returned"
               ELSE /\ pc' = "except"
                    /\ UNCHANGED disk
       ELSE /\ pc' = "typecheck"
            /\ UNCHANGED <<verdict, replies, reply_calls, disk>>
    /\ UNCHANGED <<runs, message, payload, file_ext, file_name, file_mime,
                   telegraph_url, created, dl, up>>
    /\ UNCHANGED startup

\* lines 166-172: the type check on the sniffed bytes; magic may raise
TypeCheck(sniff, sent) ==
    /\ pc = "typecheck"
    /\ sniff \in {payload.mime, SNIFF_RAISE}
    /\ trace' = Append(trace, "type")
    /\ IF sniff = SNIFF_RAISE
       THEN /\ pc' = "except"
            /\ UNCHANGED <<file_mime, verdict, replies, reply_calls, disk>>
       ELSE /\ file_mime' = sniff
            /\ IF UnsupportedMime(sniff)
               THEN /\ verdict' = "UnsupportedType"
                    /\ Reply("unsupported_type", sent)
                    /\ IF sent
                       THEN /\ disk' = Remove(file_name.val)
                            /\ pc' = "returned"
                       ELSE /\ pc' = "except"
                            /\ UNCHANGED disk
               ELSE /\ verdict' = "Accepted"
                    /\ pc' = "upload"
                    /\ UNCHANGED <<replies, reply_calls, disk>>
    /\ UNCHANGED <<runs, message, payload, file_ext, file_name, file_size,
                   telegraph_url, created, dl, up>>
    /\ UNCHANGED startup

\* lines 175-191: upload_to_telegraph, the link or the failure reply, and
\* the clean up
Upload(sniff, response, sent) ==
    /\ pc = "upload"
    /\ sniff \in {payload.mime, SNIFF_RAISE}
    /\ LET u == UploadCall(up, env_token, payload.size, sniff, response)
       IN  /\ up' = u
           /\ telegraph_url' = u.ret
           /\ IF Truthy(u.ret)
              THEN /\ trace' = trace \o <<"upload", "reply">>
                   /\ Reply("link", sent)
              ELSE /\ trace' = Append(trace, "upload")
                   /\ Reply("upload_failed", sent)
    /\ IF sent
       THEN /\ disk' = Remove(file_name.val)
            /\ pc' = "returned"
       ELSE /\ pc' = "except"
            /\ UNCHANGED disk
    /\ UNCHANGED <<runs, message, payload, file_ext, file_name, file_size,
                   file_mime, created, verdict, dl>>
    /\ UNCHANGED startup

\* variant of Except: the clause cleans up but sends no reply
Except_Silent(sent) ==
    /\ pc = "except"
    /\ IF file_name.some
       THEN /\ disk' = Remove(file_name.val)
            /\ pc' = "returned"
       ELSE /\ pc' = "raised"
            /\ UNCHANGED disk
    /\ UNCHANGED <<runs, message, payload, file_ext, file_name, file_size,
                   file_mime, telegraph_url, created, verdict, trace, dl, up,
                   replies, reply_calls>>
    /\ UNCHANGED startup

\* lines 193-197: the except clause.  A reply_to that raises here leaves the
\* handler; so does os.path.exists(file_name) while file_name is unbound.
Except(sent) ==
    /\ pc = "except"
    /\ Reply("catch_all", sent)
    /\ IF sent /\ file_name.some
       THEN /\ disk' = Remove(file_name.val)
            /\ pc' = "returned"
       ELSE /\ pc' = "raised"
            /\ UNCHANGED disk
    /\ UNCHANGED <<runs, message, payload, file_ext, file_name, file_size,
                   file_mime, telegraph_url, created, verdict, trace, dl, up>>
    /\ UNCHANGED startup

Next ==
    \/ MainWithToken
    \/ MainCreateAccount
    \/ MainCreateFails
    \/ \E m \in Messages, p \in Payloads : Receive(m, p)
    \/ \E ok \in BOOLEAN : Resolve(ok)
    \/ \E sent \in BOOLEAN : ExtCheck(sent)
    \/ \E o \in DownloadOutcomes, sent \in BOOLEAN : Download(o, sent)
    \/ \E sent \in BOOLEAN : SizeCheck(sent)
    \/ \E sniff \in Mimes \cup {SNIFF_RAISE}, sent \in BOOLEAN : TypeCheck(sniff, sent)
    \/ \E sniff \in Mimes \cup {SNIFF_RAISE}, response \in PipelineResponses,
          sent \in BOOLEAN : Upload(sniff, response, sent)
    \/ \E sent \in BOOLEAN : Except(sent)

Spec == Init /\ [][Next]_vars

\* ------------------------------------ upload_to_telegraph called on its own
\* any credential, any file and any answer of the endpoint
InitUpload ==
    /\ main_pc = "polling"
    /\ env_token \in EnvTokens
    /\ telegraph = env_token
    /\ provisioned = FALSE
    /\ pc = "direct"
    /\ runs = 0
    /\ message = NoMessage
    /\ payload \in Payloads
    /\ file_ext = <<>>
    /\ file_name = None
    /\ file_size = -1
    /\ file_mime = ""
    /\ telegraph_url = None
    /\ disk = {<<0>>}
    /\ created = 0
    /\ verdict = "none"
    /\ replies = <<>>
    /\ reply_calls = 0
    /\ trace = <<>>
    /\ dl = NoDownload
    /\ up = NoUpload

UploadDirect(sniff, response) ==
    /\ pc = "direct"
    /\ sniff \in {payload.mime, SNIFF_RAISE}
    /\ up' = UploadCall(up, env_token, payload.size, sniff, response)
    /\ telegraph_url' = up'.ret
    /\ pc' = "direct_done"
    /\ UNCHANGED <<runs, message, payload, file_ext, file_name, file_size,
                   file_mime, disk, created, verdict, replies, reply_calls,
                   trace, dl>>
    /\ UNCHANGED startup

NextUpload ==
    \E sniff \in Mimes \cup {SNIFF_RAISE}, response \in Responses \cup {RespRaise} :
        UploadDirect(sniff, response)

SpecUpload == InitUpload /\ [][NextUpload]_vars

\* ================================================================ claims
\* the values the specification names, written out for the claims
AllowedMimes == {"image/jpeg", "image/png", "image/gif", "video/mp4"}
AllowedExts ==
    { <<".","j","p","g">>, <<".","j","p","e","g">>, <<".","p","n","g">>,
      <<".","g","i","f">>, <<".","m","p","4">> }
FiveMiB == 5 * 1024 * 1024
HasFilePrefix(s) ==
    /\ Len(s) >= 6
    /\ <<s[1], s[2], s[3], s[4], s[5], s[6]>> = <<"/","f","i","l","e","/">>
StageOrder == <<"ext", "download", "size", "type", "upload", "reply">>
IsPrefix(s, t) == Len(s) <= Len(t) /\ s = SubSeq(t, 1, Len(s))
Ended == pc \in {"returned", "raised"}
ExtAllowed == Lower(file_ext) \in AllowedExts

\* C1: at most one staged temp file is created by a run of handle_media, and
\* once the run has ended (returned or raised) its staged file is not on disk.
C1_StagedFileNeverLeft ==
    /\ created <= 1
    /\ Ended => (file_name.some => file_name.val \notin disk)

\* C2: no failure of a pipeline stage leaves handle_media as an exception:
\* the handler never ends by raising.
C2_NoExceptionEscapes == pc # "raised"

\* the reply a run owes the user when every bot.reply_to call goes through
ExpectedReply ==
    IF up.calls > 0
    THEN IF Truthy(up.ret) THEN "link" ELSE "upload_failed"
    ELSE IF verdict = "UnsupportedType" THEN "unsupported_type"
    ELSE IF verdict = "TooLarge" THEN "too_large"
    ELSE IF dl.calls > 0 /\ ~dl.ret THEN "download_failed"
    ELSE IF trace = <<"ext">> /\ ~ExtAllowed THEN "unsupported_ext"
    ELSE "catch_all"

C4_ProvisionedTokenUsed ==
    (provisioned /\ up.calls > 0) => up.exit # "no_token"

\* C5: a downloaded payload of more than 5 MiB is rejected as TooLarge at the
\* size check whatever its content type, is never sniffed or uploaded; a
\* payload of exactly 5 MiB passes the size check.
C5_OversizeRejected ==
    ("size" \in {trace[i] : i \in 1..Len(trace)}) =>
        /\ payload.size > FiveMiB =>
              /\ verdict = "TooLarge"
              /\ file_mime = ""
              /\ pc \notin {"typecheck", "upload"}
              /\ up.calls = 0
              /\ trace = <<"ext", "download", "size">>
        /\ payload.size = FiveMiB =>
              /\ verdict # "TooLarge"
              /\ pc # "sizecheck"
              /\ Ended \/ pc \in {"typecheck", "upload", "except"}
              /\ replies # <<"too_large">>

C5_Witness ==
    /\ pc = "returned"
    /\ payload.size = FiveMiB + 1
    /\ payload.mime = "image/jpeg"
    /\ verdict = "TooLarge"
    /\ replies = <<"too_large">>

\* C6 (as claimed): every validated payload whose content type is outside the
\* allow-list gets the verdict UnsupportedType.
C6_BadTypeAlwaysUnsupported ==
    (verdict # "none" /\ payload.mime \notin AllowedMimes) =>
        verdict = "UnsupportedType"

\* C6 (amended): every validated payload of at most 5 MiB whose content type
\* is outside the allow-list gets the verdict UnsupportedType, also when the
\* declared extension is an allowed one; between Accepted and UnsupportedType
\* the bytes alone decide; a payload whose content type is outside the
\* allow-list is never uploaded.
C6_BadTypeUnsupportedWithinLimit ==
    /\ (verdict # "none" /\ payload.size <= FiveMiB
            /\ payload.mime \notin AllowedMimes) => verdict = "UnsupportedType"
    /\ (file_mime # "" /\ file_mime \notin AllowedMimes) =>
            verdict = "UnsupportedType"
    /\ verdict = "Accepted" => payload.mime \in AllowedMimes
    /\ verdict = "UnsupportedType" => payload.mime \notin AllowedMimes
    /\ payload.mime \notin AllowedMimes => (up.calls = 0 /\ pc # "upload")

C6_Witness ==
    /\ pc = "returned"
    /\ message.content_type = "document"
    /\ Lower(file_ext) = <<".","j","p","g">>
    /\ payload.mime = "text/plain"
    /\ verdict = "UnsupportedType"
    /\ up.calls = 0

\* C7: upload_to_telegraph called without a configured credential returns
\* None at its credential check and makes no call to the upload endpoint,
\* whatever the size and the type of the file.
C7_NoCredentialNoNetwork ==
    (up.calls > 0 /\ up.token \in {ENV_UNSET, ""}) =>
        /\ up.ret = None
        /\ up.exit = "no_token"
        /\ up.net = 0

C7_Witness ==
    /\ up.calls = 1
    /\ up.token = ""
    /\ up.size = FiveMiB
    /\ up.sniff = "image/png"
    /\ up.response = RespList(<<ItemDict(Some(PATH_ABC))>>)
    /\ up.ret = None

\* C8: the answer of the upload endpoint is decoded by shape: a non-empty
\* array whose first element is an object with a src gives that src; a string
\* that begins with '/file/' gives the string; anything else gives None.
C8_ResponseDecoding ==
    (up.calls > 0 /\ up.net > 0 /\ up.response # RespRaise) =>
        LET r == up.response
        IN  IF r.kind = "list" /\ Len(r.items) > 0 /\ r.items[1].kind = "dict"
               /\ r.items[1].src.some
            THEN up.ret = Some(r.items[1].src.val)
            ELSE IF r.kind = "str" /\ HasFilePrefix(r.val)
                 THEN up.ret = Some(r.val)
                 ELSE up.ret = None

C8_Witness ==
    /\ up.calls = 1
    /\ up.net = 1
    /\ up.response = RespStr(PATH_ABC)
    /\ up.ret = Some(PATH_ABC)

\* C9: download_file has created exactly one file when it reports success
\* and no file when it reports failure.
C9_DownloadCreatesFileIffSuccess ==
    dl.calls > 0 => (created = IF dl.ret THEN 1 ELSE 0)

\* C10: a run goes through the stages in the order extension check,
\* download, size check, type check, upload, link reply, each at most once,
\* and stops at the first stage that fails: no download for a refused
\* extension, no upload unless download, size check and type check passed,
\* the link reply only after the upload returned a path.
C10_StagesInOrder ==
    LET stages == {trace[i] : i \in 1..Len(trace)}
    IN  /\ IsPrefix(trace, StageOrder)
        /\ dl.calls <= 1 /\ up.calls <= 1
        /\ dl.calls = (IF "download" \in stages THEN 1 ELSE 0)
        /\ up.calls = (IF "upload" \in stages THEN 1 ELSE 0)
        /\ ("ext" \in stages /\ ~ExtAllowed) => trace = <<"ext">>
        /\ "download" \in stages => ExtAllowed
        /\ (dl.calls > 0 /\ ~dl.ret) => trace = <<"ext", "download">>
        /\ "size" \in stages => dl.ret
        /\ ("size" \in stages /\ payload.size > FiveMiB) =>
                trace = <<"ext", "download", "size">>
        /\ ("type" \in stages /\ (file_mime = "" \/ file_mime \notin AllowedMimes)) =>
                trace = <<"ext", "download", "size", "type">>
        /\ "upload" \in stages =>
                /\ dl.ret
                /\ payload.size <= FiveMiB
                /\ file_mime \in AllowedMimes
                /\ verdict = "Accepted"
        /\ "reply" \in stages <=> (up.calls = 1 /\ Truthy(up.ret))
        /\ "link" \in {replies[i] : i \in 1..Len(replies)} => "reply" \in stages

C10_Witness ==
    /\ pc = "returned"
    /\ trace = StageOrder
    /\ replies = <<"link">>
    /\ dl.calls = 1
    /\ up.calls = 1

====
